---- MODULE Spec2Model ----
(***************************************************************************)
(* Model of src/issues/fetch_issues.py: the incremental fetch-and-merge    *)
(* pipeline (cursor, paginator, comment enrichment, store merge) and the   *)
(* on-disk store.                                                          *)
(*                                                                         *)
(* A fetch run is cut at its blocking network calls: one action is one     *)
(* iteration of fetch_paginated's loop (request_json and what follows it   *)
(* up to the next request), so everything the code does between two        *)
(* requests, the final save included, belongs to the action that precedes  *)
(* it.                                                                     *)
(***************************************************************************)
EXTENDS Integers, Sequences, FiniteSets, TLC

\* ------------------------------------------------------------------ bounds
\* Longest chain of pages of one paginated collection.
MaxPages == 2
\* Most elements the pages of one issue list hold together.
MaxBatch == 2
\* Fetch runs in one behaviour.
MaxRuns == 2

\* --------------------------------------------------------------- constants
DEFAULT_PER_PAGE == 100

\* ------------------------------------------------------------- JSON values
\* A JSON string or null holding a timestamp, as the code sees it:
\*   none       the key is missing or null
\*   empty      ""
\*   garbage    a string neither strptime nor fromisoformat accepts
\*   nonstring  a non-empty value that is not a string (a number)
\*   canonical  YYYY-MM-DDTHH:MM:SSZ
\*   iso_aware  another ISO-8601 form with an offset (and maybe a fraction)
\*   iso_naive  an ISO-8601 form without any offset
\* secs is the wall-clock reading, off its UTC offset, micro its fraction.
Ts(kind, secs, micro, off) ==
    [kind |-> kind, secs |-> secs, micro |-> micro, off |-> off]

NoneTs == Ts("none", 0, 0, 0)

EmptyTs == Ts("empty", 0, 0, 0)

Canonical(secs) == Ts("canonical", secs, 0, 0)

\* Python truthiness of a timestamp value.
TruthyTs(v) == v.kind \notin {"none", "empty"}

\* A URL string (or None): only what urlparse and build_url look at.
Url(kind, scheme, netloc, path, since, per_page) ==
    [kind |-> kind, scheme |-> scheme, netloc |-> netloc, path |-> path,
     since |-> since, per_page |-> per_page]

NoneUrl == Url("none", "", "", "", NoneTs, 0)

EmptyUrl == Url("str", "", "", "", NoneTs, 0)

TruthyUrl(u) == u.kind = "str" /\ u # EmptyUrl

API_ROOT == Url("str", "https", "api.github.com", "", NoneTs, 0)

\* A check of the scheme alone: any https host passes.
ensure_api_url_SchemeOnly(url) == url.scheme = "https"

\* ensure_api_url: TRUE when the URL is accepted, FALSE when it raises.
ensure_api_url(url) ==
    url.scheme = "https" /\ url.netloc = API_ROOT.netloc

\* build_url for the two parameters the program varies; a None value is
\* skipped, any other value replaces the one in the base URL's query.
build_url(base, since, per_page) ==
    [base EXCEPT !.since = IF since.kind = "none" THEN @ ELSE since,
                 !.per_page = IF per_page = 0 THEN @ ELSE per_page]

\* ---------------------------------------------------------------- HTTP side
\* The relation names a Link header of the model may carry.
RelNames == {"next", "last", "prev"}

\* One link-value of a Link header: <url>; name=value; ...
LinkPart(url, params) == [url |-> url, params |-> params]

Param(name, value) == [name |-> name, value |-> value]

\* The value of the first rel= item of a link-value, "" when it has none
\* (the loop of parse_link_header that breaks at the first match).
RECURSIVE FirstRel(_)
FirstRel(params) ==
    IF params = <<>> THEN ""
    ELSE IF Head(params).name = "rel" THEN Head(params).value
    ELSE FirstRel(Tail(params))

\* parse_link_header: relation name -> URL, NoneUrl for a name the header
\* does not give; a later link-value overwrites an earlier one of the same
\* name, a link-value without parameters or without a rel is skipped.
RECURSIVE parse_link_header(_)
parse_link_header(link_header) ==
    IF link_header = <<>> THEN [r \in RelNames |-> NoneUrl]
    ELSE LET links == parse_link_header(SubSeq(link_header, 1, Len(link_header) - 1))
             part == link_header[Len(link_header)]
             rel == FirstRel(part.params)
         IN  IF Len(part.params) < 1 \/ rel = "" THEN links
             ELSE [links EXCEPT ![rel] = part.url]

\* An element of a JSON array the API returns: an issue, a comment, or a
\* value that is not an object. num_kind tells what "number" holds: an
\* int, something else ("other": a string, a float, null), or nothing.
Obj(is_dict, num_kind, number, title, comments, comments_url, pull_request, updated_at, id) ==
    [is_dict |-> is_dict, num_kind |-> num_kind, number |-> number,
     title |-> title, comments |-> comments, comments_url |-> comments_url,
     pull_request |-> pull_request, updated_at |-> updated_at, id |-> id]

\* A decoded body: a bare array, or an object that may have an items field.
Payload(shape, has_items, elems) ==
    [shape |-> shape, has_items |-> has_items, elems |-> elems]

\* What one call of urlopen and response.read() yields: a 2xx answer with
\* a body and a Link header, or a failure.
Response(kind, payload, link) ==
    [kind |-> kind, payload |-> payload, link |-> link]

\* The failures request_json turns into RuntimeError: HTTPError, URLError,
\* a body that is not JSON.
ErrorKinds == {"http_error", "url_error", "bad_json"}

\* The failures request_json has no handler for: the exceptions of
\* urlopen and read() that are not URLError (TimeoutError while the
\* response is awaited or read, IncompleteRead, RemoteDisconnected). They
\* leave request_json as they are, not as RuntimeError.
UncaughtKinds == {"timeout"}

\* A fetch_paginated call in progress: the URL of its next request, what
\* it has accumulated, and how it ended (running | returned | raised).
Paginator(next_url, results, status, error, requests) ==
    [next_url |-> next_url, results |-> results, status |-> status,
     error |-> error, requests |-> requests]

NewPaginator(url) ==
    Paginator(url, <<>>,
              IF TruthyUrl(url) THEN "running" ELSE "returned", "none", 0)

\* No fetch_paginated call in progress.
IdlePaginator == Paginator(NoneUrl, <<>>, "idle", "none", 0)

IsDict(item) == item.is_dict

\* The elements fetch_paginated iterates over for one body.
PageItems(payload) ==
    IF payload.shape = "object"
    THEN (IF payload.has_items THEN payload.elems ELSE <<>>)
    ELSE payload.elems

\* request_json: "none" when it returns, else the error it raises. The
\* URL is checked before anything is sent.
request_json(url, resp) ==
    IF ~ensure_api_url(url) THEN "protocol"
    ELSE IF resp.kind # "ok" THEN resp.kind
    ELSE "none"

\* A paginator that swallows the error of a request and returns the pages
\* it has.
fetch_paginated_KeepPartial(p, resp) ==
    LET err == request_json(p.next_url, resp)
        next == parse_link_header(resp.link)["next"]
    IN  IF err # "none"
        THEN Paginator(NoneUrl, p.results, "returned", "none", p.requests)
        ELSE Paginator(next,
                       p.results \o SelectSeq(PageItems(resp.payload), IsDict),
                       IF TruthyUrl(next) THEN "running" ELSE "returned",
                       "none", p.requests + 1)

\* One iteration of fetch_paginated's loop.
fetch_paginated(p, resp) ==
    LET err == request_json(p.next_url, resp)
        sent == IF err = "protocol" THEN p.requests ELSE p.requests + 1
    IN  IF err # "none"
        THEN Paginator(p.next_url, p.results, "raised", err, sent)
        ELSE LET next == parse_link_header(resp.link)["next"]
             IN  Paginator(next,
                           p.results \o SelectSeq(PageItems(resp.payload), IsDict),
                           IF TruthyUrl(next) THEN "running" ELSE "returned",
                           "none", sent)

\* ------------------------------------------------------------------ cursor
\* What parse_github_datetime yields: status "none" (it returns None),
\* "typeerror" (strptime rejects a value that is not a string: the
\* exception is not a ValueError and leaves the function), or "ok" with a
\* datetime. An aware datetime is kept as its UTC instant, a naive one as
\* its wall-clock reading.
Dt(status, aware, secs, micro) ==
    [status |-> status, aware |-> aware, secs |-> secs, micro |-> micro]

parse_github_datetime(value) ==
    IF ~TruthyTs(value) THEN Dt("none", TRUE, 0, 0)
    ELSE IF value.kind = "nonstring" THEN Dt("typeerror", TRUE, 0, 0)
    ELSE IF value.kind = "canonical" THEN Dt("ok", TRUE, value.secs, 0)
    ELSE IF value.kind = "iso_aware"
         THEN Dt("ok", TRUE, value.secs - value.off, value.micro)
    ELSE IF value.kind = "iso_naive" THEN Dt("ok", FALSE, value.secs, value.micro)
    ELSE Dt("none", TRUE, 0, 0)

\* to_github_iso: astimezone(utc) reads a naive datetime as local time.
to_github_iso(dt, local_offset) ==
    Canonical(IF dt.aware THEN dt.secs ELSE dt.secs - local_offset)

\* dt1 > dt2 for two datetimes of the same kind.
DtGreater(a, b) ==
    a.secs > b.secs \/ (a.secs = b.secs /\ a.micro > b.micro)

\* max(timestamps) as Python computes it: left to right, keeping the first
\* of equal values; comparing a naive with an aware datetime raises
\* TypeError, reported as status "typeerror".
RECURSIVE PyMax(_, _)
PyMax(best, rest) ==
    IF rest = <<>> \/ best.status # "ok" THEN best
    ELSE IF Head(rest).aware # best.aware THEN Dt("typeerror", TRUE, 0, 0)
    ELSE PyMax(IF DtGreater(Head(rest), best) THEN Head(rest) ELSE best,
               Tail(rest))

\* A stored issue record (build_issue_record's fields that the merge, the
\* sort and the cursor read). num_kind is "missing" for a record of a
\* hand-written or legacy store that has no "number" key.
Rec(num_kind, number, title, updated_at, comments_count, comments) ==
    [num_kind |-> num_kind, number |-> number, title |-> title,
     updated_at |-> updated_at, comments_count |-> comments_count,
     comments |-> comments]

\* One item of the in-memory dict issues_map, kept in insertion order.
Item(key, rec) == [key |-> key, rec |-> rec]

RECURSIVE ParsedTimestamps(_)
ParsedTimestamps(issues_map) ==
    IF issues_map = <<>> THEN <<>>
    ELSE LET value == Head(issues_map).rec.updated_at
             rest == ParsedTimestamps(Tail(issues_map))
         IN  IF TruthyTs(value) THEN <<parse_github_datetime(value)>> \o rest
             ELSE rest

IsRaised(dt) == dt.status = "typeerror"

IsParsed(dt) == dt.status = "ok"

\* latest_updated_at: [raised, value]; raised when the function is left by
\* a TypeError, value NoneTs when it returns None.
latest_updated_at(issues_map, local_offset) ==
    LET parsed == ParsedTimestamps(issues_map)
        timestamps == SelectSeq(parsed, IsParsed)
    IN  IF SelectSeq(parsed, IsRaised) # <<>>
        THEN [raised |-> TRUE, value |-> NoneTs]
        ELSE IF timestamps = <<>> THEN [raised |-> FALSE, value |-> NoneTs]
        ELSE LET best == PyMax(Head(timestamps), Tail(timestamps))
             IN  IF IsRaised(best) THEN [raised |-> TRUE, value |-> NoneTs]
                 ELSE [raised |-> FALSE,
                       value |-> to_github_iso(best, local_offset)]

\* ------------------------------------------------------------------- store
\* The persisted document. A list-shaped issues field is a sequence of
\* records (key 0 and unused); a legacy map-shaped one is a sequence of
\* key/record members in file order, its keys already read as integers.
Doc(exists, shape, issues, issue_count, fetched_at) ==
    [exists |-> exists, shape |-> shape, issues |-> issues,
     issue_count |-> issue_count, fetched_at |-> fetched_at]

NoFile == Doc(FALSE, "list", <<>>, 0, 0)

\* issues_map[key] = rec on a Python dict: an existing key keeps its place.
RECURSIVE MapSet(_, _, _)
MapSet(issues_map, key, rec) ==
    IF issues_map = <<>> THEN <<Item(key, rec)>>
    ELSE IF Head(issues_map).key = key
         THEN <<Item(key, rec)>> \o Tail(issues_map)
    ELSE <<Head(issues_map)>> \o MapSet(Tail(issues_map), key, rec)

\* load_issue_store, the issues_map it returns: a member of a map is filed
\* under int(key), a record of a list that has a "number" under
\* int(number), a record without one is left out. The records of the
\* model's stores hold an int number or none.
RECURSIVE LoadEntries(_, _, _)
LoadEntries(shape, raw_issues, issues_map) ==
    IF raw_issues = <<>> THEN issues_map
    ELSE LET e == Head(raw_issues)
         IN  LoadEntries(shape, Tail(raw_issues),
                 IF shape = "map" THEN MapSet(issues_map, e.key, e.rec)
                 ELSE IF e.rec.num_kind # "missing"
                      THEN MapSet(issues_map, e.rec.number, e.rec)
                 ELSE issues_map)

load_issue_store(doc) ==
    IF ~doc.exists THEN <<>>
    ELSE LoadEntries(doc.shape, doc.issues, <<>>)

\* The sort key of save_issue_store: item.get("number", 0).
SortKey(rec) == IF rec.num_kind = "int" THEN rec.number ELSE 0

\* Insert an item after every item whose key is not larger (stable).
RECURSIVE InsertSorted(_, _)
InsertSorted(sorted, item) ==
    IF sorted = <<>> THEN <<item>>
    ELSE IF SortKey(Head(sorted).rec) <= SortKey(item.rec)
         THEN <<Head(sorted)>> \o InsertSorted(Tail(sorted), item)
    ELSE <<item>> \o sorted

\* sorted(issues.values(), key=...): Python's sort is stable.
RECURSIVE SortByNumber(_)
SortByNumber(items) ==
    IF items = <<>> THEN <<>>
    ELSE InsertSorted(SortByNumber(SubSeq(items, 1, Len(items) - 1)),
                      Item(0, items[Len(items)].rec))

\* save_issue_store: the document written; now is the wall clock.
save_issue_store(issues_map, now) ==
    LET issues == SortByNumber(issues_map)
    IN  Doc(TRUE, "list", issues, Len(issues), now)

\* ------------------------------------------------------------ normalisation
\* build_comment_record.
build_comment_record(comment) == [id |-> comment.id]

RECURSIVE CommentRecords(_)
CommentRecords(comments) ==
    IF comments = <<>> THEN <<>>
    ELSE <<build_comment_record(Head(comments))>> \o CommentRecords(Tail(comments))

\* build_issue_record.
build_issue_record(issue, comments) ==
    Rec(issue.num_kind, issue.number, issue.title, issue.updated_at,
        issue.comments, comments)

\* fetch_issue_comments: the URL of its first request, and what it returns
\* once its fetch_paginated call has returned.
CommentsUrl(comments_url) == build_url(comments_url, NoneTs, DEFAULT_PER_PAGE)

fetch_issue_comments(p) == CommentRecords(SelectSeq(p.results, IsDict))

\* The comments run_fetch stores when fetch_issue_comments raised
\* RuntimeError.
CommentsOnFailure(p) == <<>>

\* fetch_issues: the URL of its first request, and its filter.
IssuesUrl(since) ==
    build_url([API_ROOT EXCEPT !.path = "issues"], since, DEFAULT_PER_PAGE)

NotPullRequest(issue) == ~issue.pull_request

fetch_issues(p) == SelectSeq(p.results, NotPullRequest)

\* The test of run_fetch on an issue's number.
ValidNumber(issue) == issue.num_kind = "int" /\ issue.number > 0

\* Whether run_fetch fetches the comments of an issue.
WantsComments(include_comments, issue) ==
    include_comments /\ issue.comments > 0 /\ TruthyUrl(issue.comments_url)

\* One entry of the run's history: an accepted issue, whether its comment
\* fetch raised, the comments stored with it, and the comment pages its
\* fetch went through when it returned.
Done(issue, failed, comments, pages) ==
    [issue |-> issue, failed |-> failed, comments |-> comments,
     pages |-> pages]

\* record = build_issue_record(issue, comments); issues_map[number] = record
MergeIssue(issues_map, issue, comments) ==
    MapSet(issues_map, issue.number, build_issue_record(issue, comments))

\* A selection that looks at args.since before args.full_refresh.
SelectSince_ExplicitFirst(a, map, offset) ==
    IF TruthyTs(a.since) THEN [raised |-> FALSE, value |-> a.since]
    ELSE IF a.full_refresh THEN [raised |-> FALSE, value |-> NoneTs]
    ELSE latest_updated_at(map, offset)

\* The cursor selection of run_fetch, [raised, value]: args.full_refresh
\* first, then args.since, and the cache only when both are falsy (the
\* or short-circuits, so latest_updated_at is not called otherwise).
SelectSince(a, map, offset) ==
    IF a.full_refresh THEN [raised |-> FALSE, value |-> NoneTs]
    ELSE IF TruthyTs(a.since) THEN [raised |-> FALSE, value |-> a.since]
    ELSE latest_updated_at(map, offset)

\* The body of run_fetch's loop from issue idx on, up to the next comment
\* request (pc "comments") or through the end of the loop (pc "done").
RECURSIVE Advance(_, _, _, _, _, _)
Advance(include_comments, batch, i, map, nskipped, hist) ==
    IF i > Len(batch)
    THEN [pc |-> "done", idx |-> i, issues_map |-> map, skipped |-> nskipped,
          processed |-> hist, com |-> IdlePaginator]
    ELSE IF ~ValidNumber(batch[i])
         THEN Advance(include_comments, batch, i + 1, map, nskipped + 1, hist)
    ELSE IF WantsComments(include_comments, batch[i])
         THEN [pc |-> "comments", idx |-> i, issues_map |-> map,
               skipped |-> nskipped, processed |-> hist,
               com |-> NewPaginator(CommentsUrl(batch[i].comments_url))]
    ELSE Advance(include_comments, batch, i + 1,
                 MergeIssue(map, batch[i], <<>>), nskipped,
                 Append(hist, Done(batch[i], FALSE, <<>>, 0)))

\* The merge of a whole run whose comment fetches ended as hist records.
RECURSIVE MergeAll(_, _)
MergeAll(map, hist) ==
    IF hist = <<>> THEN map
    ELSE MergeAll(MergeIssue(map, Head(hist).issue, Head(hist).comments),
                  Tail(hist))

\* ------------------------------------------------------------ input domains
ApiComments == Url("str", "https", "api.github.com", "comments", NoneTs, 0)

EvilComments == Url("str", "https", "evil.example.com", "comments", NoneTs, 0)

ApiNext == Url("str", "https", "api.github.com", "page", NoneTs, 100)

EvilNext == Url("str", "https", "evil.example.com", "page", NoneTs, 100)

HttpNext == Url("str", "http", "api.github.com", "page", NoneTs, 100)

Issue(number, title, comments, comments_url) ==
    Obj(TRUE, "int", number, title, comments, comments_url, FALSE,
        Canonical(number), 0)

\* The elements an issue-list page of the main specification may hold:
\* two issues with comments, one whose comments URL leaves the API host,
\* a second entry for number 1, a pull request, a non-positive number and
\* a number that is not an integer.
IssueA == Issue(1, "a", 2, ApiComments)

IssueB == Issue(2, "b", 1, ApiComments)

IssueEvil == Issue(2, "e", 1, EvilComments)

IssueA2 == Issue(1, "c", 0, NoneUrl)

IssuePR == [Issue(2, "pr", 0, NoneUrl) EXCEPT !.pull_request = TRUE]

IssueZero == Issue(0, "z", 0, NoneUrl)

IssueStr == [Issue(0, "s", 0, NoneUrl) EXCEPT !.num_kind = "other"]

NotAnObject == [Issue(0, "", 0, NoneUrl) EXCEPT !.is_dict = FALSE]

ListElems ==
    {IssueA, IssueB, IssueEvil, IssueA2, IssuePR, IssueZero, IssueStr}

Comment(id) == Obj(TRUE, "missing", 0, "", 0, NoneUrl, FALSE, NoneTs, id)

SeqsUpTo(S, n) == UNION {[1..k -> S] : k \in 0..n}

Link(url, rel) == <<LinkPart(url, <<Param("rel", rel)>>)>>

\* Link headers of the main specification: none, a next link on the API
\* host (with a last link after it), and a next link off the API host.
MainLinks ==
    {<<>>, Link(ApiNext, "next") \o Link(ApiNext, "last"), Link(EvilNext, "next")}

Failures ==
    {Response(k, Payload("array", FALSE, <<>>), <<>>) :
        k \in ErrorKinds \cup UncaughtKinds}

Answers(elems, links) ==
    {Response("ok", Payload("array", FALSE, e), l) : e \in elems, l \in links}

\* A stored record of an earlier run, with a comment of its own.
Old(number, title) ==
    Rec("int", number, title, Canonical(number), 1, <<build_comment_record(Comment(9))>>)

ListStore == Doc(TRUE, "list", <<Item(0, Old(1, "x")), Item(0, Old(3, "y"))>>, 2, 0)

\* A legacy store: a map keyed by the stringified number.
MapStore == Doc(TRUE, "map", <<Item(3, Old(3, "y")), Item(1, Old(1, "x"))>>, 2, 0)

\* A map-shaped store load_issue_store accepts whose keys are not the
\* numbers of its records.
SkewedMapStore == Doc(TRUE, "map", <<Item(1, Old(2, "p")), Item(2, Old(2, "q"))>>, 2, 0)

\* A store with one updated_at that carries no UTC offset.
NaiveStore ==
    Doc(TRUE, "list",
        <<Item(0, Old(1, "x")),
          Item(0, [Old(3, "y") EXCEPT !.updated_at = Ts("iso_naive", 3, 0, 0)])>>,
        2, 0)

\* The documents a run may find, each one load_issue_store accepts: no
\* file, a store save_issue_store wrote, a legacy map keyed by number, a
\* map keyed otherwise, a store with a timestamp of another form.
InitialStores == {NoFile, ListStore, MapStore, SkewedMapStore, NaiveStore}

Args(since, full_refresh, include_comments) ==
    [since |-> since, full_refresh |-> full_refresh,
     include_comments |-> include_comments]

MainArgs == {Args(NoneTs, FALSE, c) : c \in BOOLEAN}

\* ------------------------------------------------------------------- state
VARIABLES
    store,         \* the persisted document
    before,        \* the document as the current run found it
    pc,            \* idle | list | comments | done; failed: main() caught
                   \* RuntimeError and exits 1; crashed: another exception
                   \* left main()
    run,           \* runs started so far; the wall clock of fetched_at
    args,          \* the run's arguments
    issues_map,    \* run_fetch's issues_map
    top,           \* fetch_issues' fetch_paginated call
    issues,        \* what fetch_issues returned
    idx,           \* the issue run_fetch's loop is at
    com,           \* fetch_issue_comments' fetch_paginated call
    skipped,       \* diagnostics for invalid numbers
    warnings,      \* numbers of the issues a warning was printed for
    processed,     \* history: the accepted issues, in order
    error,         \* how the last request of the issue list failed
    requested,     \* history: the URLs handed to request_json, by level
    local_offset,  \* the UTC offset of the machine's local time
    visited,       \* history of the stand-alone paginator: its responses
    seed_url       \* the URL the stand-alone paginator was called with

vars ==
    <<store, before, pc, run, args, issues_map, top, issues, idx, com,
      skipped, warnings, processed, error, requested, local_offset, visited,
      seed_url>>

NoArgs == Args(NoneTs, FALSE, FALSE)

InitRun ==
    /\ before = store
    /\ pc = "idle"
    /\ run = 0
    /\ args = NoArgs
    /\ issues_map = <<>>
    /\ top = IdlePaginator
    /\ issues = <<>>
    /\ idx = 0
    /\ com = IdlePaginator
    /\ skipped = 0
    /\ warnings = <<>>
    /\ processed = <<>>
    /\ error = "none"
    /\ requested = <<>>
    /\ visited = <<>>
    /\ seed_url = NoneUrl

Init ==
    /\ store \in InitialStores
    /\ local_offset = 0
    /\ InitRun

\* ----------------------------------------------------------------- actions
\* The finite chain of pages: a response may carry a usable next link only
\* while fewer than MaxPages pages have been requested.
ChainAllows(p, resp) ==
    \/ resp.kind # "ok"
    \/ p.requests + 1 < MaxPages
    \/ ~TruthyUrl(parse_link_header(resp.link)["next"])

ListResponses ==
    Failures \cup Answers(SeqsUpTo(ListElems, MaxBatch), MainLinks)

\* The k-th page of an issue's comments: the k-th comment and an element
\* that is not an object.
CommentPages(k) == {<<Comment(k), NotAnObject>>}

CommentResponses(k) == Failures \cup Answers(CommentPages(k), MainLinks)

\* run_fetch from its first line to the first request of fetch_issues.
Start(a) ==
    /\ pc = "idle"
    /\ LET map == load_issue_store(store)
           since == SelectSince(a, map, local_offset)
       IN  /\ issues_map' = map
           /\ pc' = IF since.raised THEN "crashed" ELSE "list"
           /\ top' = IF since.raised THEN IdlePaginator
                     ELSE NewPaginator(IssuesUrl(since.value))
    /\ before' = store
    /\ run' = run + 1
    /\ args' = a
    /\ UNCHANGED <<store, issues, idx, com, skipped, warnings, processed,
                   error, requested, local_offset, visited, seed_url>>

\* One entry of the history of requests: the level ("list" or
\* "comments"), the URL, and the number of the issue it is made for.
Asked(level, url, number) == [level |-> level, url |-> url, number |-> number]

\* What follows a returned or raised fetch_paginated call up to the next
\* request: st is the loop's state as Advance left it.
Continue(st) ==
    /\ pc' = st.pc
    /\ idx' = st.idx
    /\ issues_map' = st.issues_map
    /\ skipped' = st.skipped
    /\ processed' = st.processed
    /\ com' = st.com
    /\ store' = IF st.pc = "done" THEN save_issue_store(st.issues_map, run)
                ELSE store

\* One request of the issue list and what the run does until its next
\* request: the next page, the fatal error, or the loop over the issues.
ListPage(resp) ==
    /\ pc = "list"
    /\ ChainAllows(top, resp)
    /\ Len(top.results) + Len(resp.payload.elems) <= MaxBatch
    /\ LET p == fetch_paginated(top, resp)
       IN  /\ top' = p
           /\ error' = request_json(top.next_url, resp)
           /\ IF p.status = "raised"
              THEN /\ pc' = IF p.error \in UncaughtKinds THEN "crashed"
                            ELSE "failed"
                   /\ UNCHANGED <<store, issues_map, issues, idx, com,
                                  skipped, processed>>
              ELSE IF p.status = "running"
              THEN UNCHANGED <<store, pc, issues_map, issues, idx, com,
                               skipped, processed>>
              ELSE /\ issues' = fetch_issues(p)
                   /\ Continue(Advance(args.include_comments, fetch_issues(p),
                                       1, issues_map, 0, <<>>))
    /\ requested' = Append(requested, Asked("list", top.next_url, 0))
    /\ UNCHANGED <<before, run, args, warnings, local_offset, visited, seed_url>>

\* One request of an issue's comments and what the run does until its
\* next request: the next page, the exception run_fetch's handler does not
\* catch, or the issue's record and the loop on.
CommentPage(resp) ==
    /\ pc = "comments"
    /\ ChainAllows(com, resp)
    /\ LET p == fetch_paginated(com, resp)
           raised == p.status = "raised"
           comments == IF raised THEN CommentsOnFailure(p)
                       ELSE fetch_issue_comments(p)
       IN  IF p.status = "running"
           THEN /\ com' = p
                /\ UNCHANGED <<store, pc, issues_map, idx, skipped,
                               warnings, processed>>
           ELSE IF raised /\ p.error \in UncaughtKinds
           THEN /\ com' = p
                /\ pc' = "crashed"
                /\ UNCHANGED <<store, issues_map, idx, skipped, warnings,
                               processed>>
           ELSE /\ warnings' = IF raised THEN Append(warnings, issues[idx].number)
                               ELSE warnings
                /\ Continue(Advance(args.include_comments, issues, idx + 1,
                                    MergeIssue(issues_map, issues[idx], comments),
                                    skipped,
                                    Append(processed,
                                           Done(issues[idx], raised, comments,
                                                IF raised THEN 0
                                                ELSE p.requests))))
    /\ requested' = Append(requested, Asked("comments", com.next_url, issues[idx].number))
    /\ UNCHANGED <<before, run, args, top, issues, error, local_offset, visited, seed_url>>

\* A further run with the same arguments against a remote that answers as
\* it did: the same batch, the same outcome of every comment fetch.
Rerun ==
    /\ pc = "done"
    /\ run < MaxRuns
    /\ LET map == load_issue_store(store)
           since == SelectSince(args, map, local_offset)
           merged == MergeAll(map, processed)
       IN  IF since.raised
           THEN /\ pc' = "crashed"
                /\ issues_map' = map
                /\ UNCHANGED store
           ELSE /\ pc' = "done"
                /\ issues_map' = merged
                /\ store' = save_issue_store(merged, run + 1)
    /\ before' = store
    /\ run' = run + 1
    /\ UNCHANGED <<args, top, issues, idx, com, skipped, warnings, processed,
                   error, requested, local_offset, visited, seed_url>>

StartMain == \E a \in MainArgs : Start(a)

ListStep == \E resp \in ListResponses : ListPage(resp)

CommentStep == \E resp \in CommentResponses(com.requests + 1) : CommentPage(resp)

Next == StartMain \/ ListStep \/ CommentStep \/ Rerun

Spec == Init /\ [][Next]_vars

\* ------------------------------------------------------ properties: helpers
\* The records of a document's issues field.
RecordsOf(doc) == [i \in 1..Len(doc.issues) |-> doc.issues[i].rec]

Count(seq, x) == Cardinality({i \in 1..Len(seq) : seq[i] = x})

Elements(seq) == {seq[i] : i \in 1..Len(seq)}

\* Two sequences hold the same records, each as often, in any order.
SameRecords(a, b) ==
    \A r \in Elements(a) \cup Elements(b) : Count(a, r) = Count(b, r)

\* The records of a document that carry number n, in file order.
RecordsNumbered(doc, n) ==
    LET HasN(r) == r.num_kind = "int" /\ r.number = n
    IN  SelectSeq(RecordsOf(doc), HasN)

StrictlyAscending(recs) ==
    \A i \in 1..(Len(recs) - 1) :
        /\ recs[i].num_kind = "int"
        /\ recs[i + 1].num_kind = "int"
        /\ recs[i].number < recs[i + 1].number

\* A URL that is not https on the API host, stated on the URL alone.
OffApi(url) == ~(url.scheme = "https" /\ url.netloc = "api.github.com")

\* A batch entry the merge accepts, stated on the entry alone.
PositiveInt(issue) == issue.num_kind = "int" /\ issue.number >= 1

\* The comments of the first k pages of an issue's comments.
FirstComments(k) == [i \in 1..k |-> build_comment_record(Comment(i))]

\* processed[j] is the last entry of the run for its number.
IsLast(j) ==
    \A k \in (j + 1)..Len(processed) :
        processed[k].issue.number # processed[j].issue.number

\* The numbers of the entries whose comment fetch raised, in order.
RECURSIVE FailedNumbers(_)
FailedNumbers(hist) ==
    IF hist = <<>> THEN <<>>
    ELSE (IF Head(hist).failed THEN <<Head(hist).issue.number>> ELSE <<>>)
         \o FailedNumbers(Tail(hist))

Terminal == pc \in {"done", "failed", "crashed"}

\* ------------------------------------------------------------- properties
\* C1: after a save of a fetch run, whatever accepted document the run
\* loaded, issue_count equals the length of issues and issues is strictly
\* ascending by number (so no number occurs twice).
C1_SavedStoreSorted ==
    pc = "done" =>
        /\ store.issue_count = Len(store.issues)
        /\ StrictlyAscending(RecordsOf(store))

\* What a comment fetch that raised RuntimeError leaves: the run fails
\* only before the first issue is processed; one warning is printed per
\* failed fetch; the record written for a failed fetch has comments []
\* and the record written for any other accepted issue has every comment
\* of the pages fetched; at the save every accepted issue of the batch has
\* been processed and the store holds, for each number, the record of the
\* batch's last entry for it.
IsolatedFailures ==
    /\ pc = "failed" =>
           /\ processed = <<>>
           /\ warnings = <<>>
           /\ \A k \in 1..Len(requested) : requested[k].level = "list"
    /\ warnings = FailedNumbers(processed)
    /\ \A j \in 1..Len(processed) :
           processed[j].comments =
               IF processed[j].failed THEN <<>>
               ELSE FirstComments(processed[j].pages)
    /\ pc = "done" =>
           /\ [j \in 1..Len(processed) |-> processed[j].issue]
                  = SelectSeq(issues, PositiveInt)
           /\ \A j \in 1..Len(processed) :
                  IsLast(j) =>
                      \E i \in 1..Len(store.issues) :
                          store.issues[i].rec =
                              build_issue_record(
                                  processed[j].issue,
                                  IF processed[j].failed THEN <<>>
                                  ELSE FirstComments(processed[j].pages))

\* C2: a comment fetch that fails (protocol violation, transport error,
\* non-2xx status, invalid JSON) never aborts the run: once a comment
\* request was made the run neither fails nor is left by an exception,
\* and the failures are isolated as above.
C2_FailureIsolation ==
    /\ IsolatedFailures
    /\ (\E k \in 1..Len(requested) : requested[k].level = "comments") =>
           pc \notin {"failed", "crashed"}

\* Lemma for C2: the failures request_json raises as RuntimeError are
\* isolated; a run that had sent a request is left by an exception only
\* when a request failed in a way request_json does not handle.
C2_RuntimeErrorLemma ==
    /\ IsolatedFailures
    /\ (pc = "crashed" /\ requested # <<>>) =>
           \/ top.error \in UncaughtKinds
           \/ com.error \in UncaughtKinds

\* The case of the lemma: a run reached the save after the comment fetch
\* of one issue raised and a later issue was stored with fetched comments.
C2_Witness ==
    /\ pc = "done"
    /\ args.include_comments
    /\ \E j \in 1..Len(processed) : \E k \in (j + 1)..Len(processed) :
           /\ processed[j].failed
           /\ ~processed[k].failed
           /\ processed[k].comments # <<>>
           /\ processed[k].issue.number # processed[j].issue.number

\* C3 as stated: once a URL that is not https on the API host was handed
\* to request_json at any level, the run ends failed with a protocol
\* violation and the store is as the run found it.
C3_AnyOffApiUrlAborts ==
    (Terminal /\ \E k \in 1..Len(requested) : OffApi(requested[k].url)) =>
        /\ pc = "failed"
        /\ error = "protocol"
        /\ store = before

\* C3 amended: an off-API URL in the issue-list pagination ends the run at
\* once, failed with a protocol violation, the store as the run found it;
\* an off-API comments URL or comments pagination link is one issue's
\* comment-fetch failure: a warning, the issue recorded with comments []
\* and the run goes on.
C3_OffApiUrl ==
    \A k \in 1..Len(requested) :
        OffApi(requested[k].url) =>
            IF requested[k].level = "list"
            THEN /\ k = Len(requested)
                 /\ pc = "failed"
                 /\ error = "protocol"
                 /\ store = before
                 /\ processed = <<>>
            ELSE /\ pc # "failed"
                 /\ \E j \in 1..Len(processed) :
                        /\ processed[j].issue.number = requested[k].number
                        /\ processed[j].failed
                        /\ processed[j].comments = <<>>
                 /\ \E w \in 1..Len(warnings) : warnings[w] = requested[k].number

\* C3 witness: after one good page with issues, the next link pointed off
\* the API host and the run failed over a store it had loaded.
C3_Witness ==
    /\ pc = "failed"
    /\ error = "protocol"
    /\ Len(requested) = 2
    /\ OffApi(requested[2].url)
    /\ top.results # <<>>
    /\ before.exists

\* C4: a failure of any request of the issue list is fatal: the run ends
\* (main() reports a RuntimeError and exits 1, any other exception
\* leaves it), no comment request was made, nothing was merged into the
\* in-memory map, nothing was saved.
C4_ListFailureIsFatal ==
    error # "none" =>
        /\ pc = IF error \in UncaughtKinds THEN "crashed" ELSE "failed"
        /\ store = before
        /\ issues_map = load_issue_store(before)
        /\ processed = <<>>
        /\ com = IdlePaginator
        /\ \A k \in 1..Len(requested) : requested[k].level = "list"

\* C4 witness: the second page failed (no protocol violation) after a
\* first page that brought issues, over an existing store.
C4_Witness ==
    /\ pc \in {"failed", "crashed"}
    /\ error \in ErrorKinds \cup UncaughtKinds
    /\ top.requests = 2
    /\ top.results # <<>>
    /\ before.exists

\* C5: a run that merges the batch of the run before it, with the same
\* outcome of every comment fetch, saves the issues it found.
C5_MergeIdempotent ==
    (pc = "done" /\ run > 1) =>
        /\ store.issues = before.issues
        /\ store.issue_count = before.issue_count

\* C5 witness: a second merge of a batch of two accepted issues, one of
\* them with fetched comments, was saved.
C5_Witness ==
    /\ pc = "done"
    /\ run = 2
    /\ Len(processed) = 2
    /\ \E j \in 1..2 : processed[j].comments # <<>>
    /\ store.fetched_at # before.fetched_at

\* C6: a run that merges nothing (load followed by save) writes the
\* records it found, each as often, none altered.
C6_RoundTrip ==
    (pc = "done" /\ processed = <<>>) =>
        SameRecords(RecordsOf(store), RecordsOf(before))

\* C6 witness: a legacy map-shaped store was loaded and saved with nothing
\* merged, and its records came out in another order.
C6_Witness ==
    /\ pc = "done"
    /\ processed = <<>>
    /\ before.exists
    /\ before.shape = "map"
    /\ RecordsOf(store) # RecordsOf(before)

\* C9: at the save of a run, for every number: when the batch holds an
\* entry with that positive integer number, the store holds exactly one
\* record of that number, built from the batch's last such entry and its
\* comments alone; otherwise the store holds the records of that number
\* the run found, unchanged. Entries with another number are counted as
\* skipped and leave no record.
C9_MergeResult ==
    (pc = "done" /\ run = 1) =>
        LET accepted == SelectSeq(issues, PositiveInt)
            numbers == {r.number : r \in Elements(RecordsOf(store))
                                       \cup Elements(RecordsOf(before))}
                       \cup {issues[i].number : i \in 1..Len(issues)}
        IN  /\ Len(processed) = Len(accepted)
            /\ skipped = Len(issues) - Len(accepted)
            /\ \A r \in Elements(RecordsOf(store)) : r.num_kind = "int"
            /\ \A n \in numbers :
                   LET js == {j \in 1..Len(accepted) : accepted[j].number = n}
                   IN  IF js # {}
                       THEN LET last == CHOOSE j \in js : \A k \in js : k <= j
                            IN  RecordsNumbered(store, n) =
                                    <<build_issue_record(accepted[last],
                                                         processed[last].comments)>>
                       ELSE RecordsNumbered(store, n) = RecordsNumbered(before, n)

\* C9 witness: over a store with records 1 and 3 the batch brought number
\* 1 twice; the last entry replaced the stored record and its comments,
\* and record 3 is still there.
C9_Witness ==
    /\ pc = "done"
    /\ run = 1
    /\ before = ListStore
    /\ Len(processed) = 2
    /\ processed[1].issue.number = 1
    /\ processed[2].issue.number = 1
    /\ processed[1].issue # processed[2].issue
    /\ RecordsNumbered(store, 3) = RecordsNumbered(before, 3)
    /\ RecordsNumbered(store, 1) # RecordsNumbered(before, 1)

\* Lemma for C1, C5, C6 and C9: a document files every record under its
\* own number when each record has an int number, no two records share a
\* number, and a map's keys are the numbers of their records. Over such a
\* document the four claims hold.
Keyed(doc) ==
    /\ \A i \in 1..Len(doc.issues) :
           /\ doc.issues[i].rec.num_kind = "int"
           /\ doc.shape = "map" => doc.issues[i].key = doc.issues[i].rec.number
    /\ \A i, j \in 1..Len(doc.issues) :
           doc.issues[i].rec.number = doc.issues[j].rec.number => i = j

KeyedStoresLemma ==
    Keyed(before) =>
        /\ C1_SavedStoreSorted
        /\ C5_MergeIdempotent
        /\ C6_RoundTrip
        /\ C9_MergeResult

\* ------------------------------------------------ cursor selection (C7, C8)
\* Most records of a cache of the cursor specification.
MaxCached == 2

\* The updated_at values a cached record may hold, one of every form
\* parse_github_datetime tells apart; the iso_aware one reads 3 s at UTC+1
\* with a fraction, an instant after Canonical(2) and before Canonical(3).
CachedTimestamps ==
    {NoneTs, EmptyTs, Ts("garbage", 0, 0, 0), Ts("nonstring", 0, 0, 0),
     Canonical(1), Canonical(2), Ts("iso_aware", 3, 5, 1),
     Ts("iso_naive", 2, 0, 0)}

Cached(stamps) ==
    Doc(TRUE, "list",
        [i \in 1..Len(stamps) |->
            Item(0, [Old(i, "x") EXCEPT !.updated_at = stamps[i]])],
        Len(stamps), 0)

CursorStores == {NoFile} \cup {Cached(f) : f \in SeqsUpTo(CachedTimestamps, MaxCached)}

\* --since absent, empty, a timestamp, or any other text; --full-refresh;
\* --no-comments.
CursorArgs ==
    {Args(s, f, c) : s \in {NoneTs, EmptyTs, Canonical(5), Ts("garbage", 0, 0, 0)},
                     f \in BOOLEAN, c \in BOOLEAN}

InitCursor ==
    /\ store \in CursorStores
    /\ local_offset \in {0, 1}
    /\ InitRun

StartCursor == \E a \in CursorArgs : Start(a)

SpecCursor == InitCursor /\ [][StartCursor]_vars

\* The run has chosen its cursor: it is about to send the first request
\* of the issue list, or it was left by an exception on the way there.
CursorChosen == pc \in {"list", "crashed"} /\ requested = <<>>

\* C7 as stated: whenever the caller supplies a since timestamp, the since
\* parameter of the issue-list request equals it, whatever the other flags
\* (full refresh included) and the cache.
C7_ExplicitSinceWins ==
    (CursorChosen /\ TruthyTs(args.since)) =>
        /\ pc = "list"
        /\ top.next_url.since = args.since

\* C7 amended: a full-refresh request comes first: since is absent,
\* whatever explicit value is supplied; without full refresh a non-empty
\* explicit since is sent as given; without either the request carries
\* what latest_updated_at derives from the loaded cache, nothing when
\* the cache is empty, and no request is made when the derivation raises.
C7_CursorSelection ==
    CursorChosen =>
        LET derived == latest_updated_at(load_issue_store(before), local_offset)
        IN  IF args.full_refresh
            THEN pc = "list" /\ top.next_url.since = NoneTs
            ELSE IF args.since.kind \notin {"none", "empty"}
            THEN pc = "list" /\ top.next_url.since = args.since
            ELSE /\ derived.raised <=> pc = "crashed"
                 /\ pc = "list" => top.next_url.since = derived.value
                 /\ before.issues = <<>> =>
                        pc = "list" /\ top.next_url.since = NoneTs

\* C7 witness: full refresh and an explicit since were both given over a
\* cache with a timestamp, and the request carries no since.
C7_Witness ==
    /\ CursorChosen
    /\ pc = "list"
    /\ args.full_refresh
    /\ args.since = Canonical(5)
    /\ \E i \in 1..Len(before.issues) :
           before.issues[i].rec.updated_at = Canonical(2)
    /\ top.next_url.since = NoneTs
    /\ top.next_url.path = "issues"

\* A timestamp string that denotes an instant, and the instant (whole
\* seconds, fraction) it denotes; a string without offset is local time.
Parseable(ts) == ts.kind \in {"canonical", "iso_aware", "iso_naive"}

Instant(ts, offset) ==
    [secs |-> IF ts.kind = "iso_naive" THEN ts.secs - offset
              ELSE ts.secs - ts.off,
     micro |-> ts.micro]

\* The cursor C8 describes for a document: the latest instant among the
\* parseable updated_at values, in whole seconds; NoneTs without any.
ExpectedCursor(doc, offset) ==
    LET recs == RecordsOf(doc)
        inst == {Instant(recs[i].updated_at, offset) :
                    i \in {j \in 1..Len(recs) : Parseable(recs[j].updated_at)}}
    IN  IF inst = {} THEN NoneTs
        ELSE Canonical((CHOOSE m \in inst :
                           \A o \in inst :
                               \/ o.secs < m.secs
                               \/ (o.secs = m.secs /\ o.micro <= m.micro)).secs)

\* C8: the cursor derived from the cache is the maximum of the parseable
\* updated_at values as a UTC timestamp of second precision, absent
\* exactly when no value parses; the other values are ignored and the
\* computation never fails.
C8_DerivedCursor ==
    (CursorChosen /\ ~args.full_refresh /\ ~TruthyTs(args.since)) =>
        /\ pc = "list"
        /\ top.next_url.since = ExpectedCursor(before, local_offset)

\* Lemma for C8: the claim holds over caches whose updated_at values are
\* strings that all carry an offset or all carry none.
C8_UniformCacheLemma ==
    LET kinds == {before.issues[i].rec.updated_at.kind :
                     i \in 1..Len(before.issues)}
    IN  (/\ "nonstring" \notin kinds
         /\ ~({"iso_naive"} \subseteq kinds /\ kinds \cap {"canonical", "iso_aware"} # {}))
        => C8_DerivedCursor

\* ------------------------------------------------- fetch_paginated (C10)
ApiLast == Url("str", "https", "api.github.com", "last", NoneTs, 100)

ApiOther == Url("str", "https", "api.github.com", "other", NoneTs, 100)

\* The Link headers a page may come with: none; a next link; next and
\* last; prev and last only; a next link off the API host or not https; a
\* next link with an empty target (<>; rel="next"); two next links; a
\* link-value without parameters; a next link with a parameter before rel.
PageLinks ==
    {<<>>,
     Link(ApiNext, "next"),
     Link(ApiNext, "next") \o Link(ApiLast, "last"),
     Link(ApiOther, "prev") \o Link(ApiLast, "last"),
     Link(EvilNext, "next"),
     Link(HttpNext, "next"),
     Link(EmptyUrl, "next"),
     Link(ApiOther, "next") \o Link(ApiNext, "next"),
     <<LinkPart(ApiNext, <<>>)>>,
     <<LinkPart(ApiNext, <<Param("title", "x"), Param("rel", "next")>>)>>}

\* The bodies of the k-th page: a bare array, an object with an items
\* field, an object without one, an empty array.
PagePayloads(k) ==
    {Payload("array", FALSE, <<Comment(k), NotAnObject>>),
     Payload("object", TRUE, <<NotAnObject, Comment(k)>>),
     Payload("object", FALSE, <<>>),
     Payload("array", FALSE, <<>>)}

PageResponses(k) ==
    Failures \cup {Response("ok", b, l) : b \in PagePayloads(k), l \in PageLinks}

\* The seed URLs fetch_paginated is called with: fetch_issues' and
\* fetch_issue_comments', the latter with a comments_url on or off the API.
SeedUrls ==
    {IssuesUrl(NoneTs), IssuesUrl(Canonical(1)), CommentsUrl(ApiComments),
     CommentsUrl(EvilComments)}

InitPaginate ==
    /\ store = NoFile
    /\ local_offset = 0
    /\ before = store
    /\ pc = "paginate"
    /\ run = 0
    /\ args = NoArgs
    /\ issues_map = <<>>
    /\ seed_url \in SeedUrls
    /\ top = NewPaginator(seed_url)
    /\ issues = <<>>
    /\ idx = 0
    /\ com = IdlePaginator
    /\ skipped = 0
    /\ warnings = <<>>
    /\ processed = <<>>
    /\ error = "none"
    /\ requested = <<>>
    /\ visited = <<>>

\* One iteration of the loop of a fetch_paginated call on its own; a
\* response is received only when ensure_api_url let the request out.
Paginate(resp) ==
    /\ pc = "paginate"
    /\ top.status = "running"
    /\ ChainAllows(top, resp)
    /\ top' = fetch_paginated(top, resp)
    /\ requested' = Append(requested, Asked("page", top.next_url, 0))
    /\ visited' = IF request_json(top.next_url, resp) = "protocol" THEN visited
                  ELSE Append(visited, resp)
    /\ UNCHANGED <<store, before, pc, run, args, issues_map, issues, idx, com,
                   skipped, warnings, processed, error, local_offset, seed_url>>

PaginateStep == \E resp \in PageResponses(top.requests + 1) : Paginate(resp)

\* Every request returns or raises: urlopen is called with a timeout.
SpecPaginate ==
    InitPaginate /\ [][PaginateStep]_vars /\ WF_vars(PaginateStep)

\* A Link header carries a next relation: one of its link-values has
\* rel="next".
CarriesNext(link_header) ==
    \E i \in 1..Len(link_header) :
        \E j \in 1..Len(link_header[i].params) :
            /\ link_header[i].params[j] = Param("rel", "next")
            /\ \A h \in 1..(j - 1) : link_header[i].params[h].name # "rel"

\* The target of the last link-value with rel="next", NoneUrl without one.
NextTarget(link_header) ==
    LET nexts == {i \in 1..Len(link_header) : CarriesNext(<<link_header[i]>>)}
    IN  IF nexts = {} THEN NoneUrl
        ELSE link_header[CHOOSE i \in nexts : \A j \in nexts : j <= i].url

\* The dict-shaped elements of the pages of a sequence of responses.
RECURSIVE DictElements(_)
DictElements(responses) ==
    IF responses = <<>> THEN <<>>
    ELSE LET b == Head(responses).payload
             elems == IF b.shape = "array" \/ b.has_items THEN b.elems ELSE <<>>
         IN  SelectSeq(elems, IsDict) \o DictElements(Tail(responses))

\* What C10 says of a call whatever ends it: requests go out one at a
\* time, the first to the seed URL, each later one to the next link of the
\* response before it; a call that returned has the dict-shaped elements
\* of every visited page, in fetch order.
PaginationOrder ==
    /\ Len(requested) = top.requests + (IF top.error = "protocol" THEN 1 ELSE 0)
    /\ Len(visited) = top.requests
    /\ requested # <<>> => requested[1].url = seed_url
    /\ \A k \in 2..Len(requested) :
           requested[k].url = NextTarget(visited[k - 1].link)
    /\ top.status = "returned" =>
           /\ visited # <<>>
           /\ \A k \in 1..Len(visited) : visited[k].kind = "ok"
           /\ top.results = DictElements(visited)

\* C10 as stated: besides the order above, the call returns exactly at
\* the first response whose Link header carries no next relation.
C10_Pagination ==
    pc = "paginate" =>
        /\ PaginationOrder
        /\ top.status = "returned" => ~CarriesNext(visited[Len(visited)].link)
        /\ \A k \in 1..(Len(visited) - 1) : CarriesNext(visited[k].link)

\* Lemma for C10: the claim holds when "carries no next relation" is read
\* as "has no next link with a non-empty target".
C10_UsableNextLemma ==
    pc = "paginate" =>
        /\ PaginationOrder
        /\ top.status = "returned" =>
               ~TruthyUrl(NextTarget(visited[Len(visited)].link))
        /\ \A k \in 1..(Len(visited) - 1) :
               TruthyUrl(NextTarget(visited[k].link))

\* Lemma for C10: over a finite chain of pages every call ends.
C10_Terminates == <>(pc = "paginate" => top.status \in {"returned", "raised"})

====
